---- MODULE Spec2Model ----
(***************************************************************************)
(* CFRHistorian (src/arena/cfr/historian.rs): the recorder that grows the   *)
(* shared CFR tree as the events of simulated hands arrive.                *)
(*                                                                         *)
(* One CFRState (the node arena) is shared by several historians, one per  *)
(* hand in flight; each historian owns its TraversalState (the cursor).    *)
(* Every historian method takes &mut self and runs to completion, so one   *)
(* call of Historian::record_action is one step; the steps of different    *)
(* hands interleave freely.                                                *)
(***************************************************************************)
EXTENDS Integers, Sequences, FiniteSets, TLC

\* ---------------------------------------------------------------- bounds
NumHands == 2          \* historians sharing the tree
MaxSteps == 4          \* events delivered in all, over all hands
MaxInOrderSteps == 6   \* the same, for streams in play order
MaxEventSteps == 4     \* the same, for streams over the whole event alphabet

\* ---------------------------------------------------------------- domain
Hands == 1..NumHands
Cards == {0, 2}         \* u8 values of the cards dealt
Seats == {0, 1}

\* ActionGenerator::num_potential_actions: the legal-edge count reported to
\* size a new decision node's regret matcher.
NumPotentialActions == 2

AgentActions == {"Bet", "Check", "Call"}

\* ActionGenerator::action_to_idx: the edge-slot of an agent action; actions
\* of the same abstracted identity collapse onto one slot.
ActionToIdx(action) ==
    CASE action = "Bet"   -> 0
      [] action = "Check" -> 1
      [] action = "Call"  -> 1

\* Edge slots of a node: action slots and card values index the same arrays.
Slots == Cards \cup (0..(NumPotentialActions - 1))

\* GameState::player_winnings at hand completion, one entry per seat.
PlayerWinnings == { <<10, -4>> }

NoChild == -1          \* Option::None of a child index

\* ---------------------------------------------------------------- NodeData
Root == [kind |-> "Root", num_experts |-> 0, total_utility |-> 0]
Chance == [kind |-> "Chance", num_experts |-> 0, total_utility |-> 0]
Player(num_experts) ==
    [kind |-> "Player", num_experts |-> num_experts, total_utility |-> 0]
Terminal == [kind |-> "Terminal", num_experts |-> 0, total_utility |-> 0]

is_chance(data) == data.kind = "Chance"

\* ---------------------------------------------------------------- arena
\* The arena is a sequence of nodes; the node of index idx is st[idx + 1].
NewNode(data) ==
    [data |-> data,
     children |-> [s \in Slots |-> NoChild],
     count |-> [s \in Slots |-> 0]]

InArena(st, idx) == idx \in 0..(Len(st) - 1)

\* CFRState::get / get_mut: Some(node) iff idx is in range.
Get(st, idx) == st[idx + 1]

\* Node::get_child
GetChild(st, idx, slot) == Get(st, idx).children[slot]

\* Node::increment_count
IncrementCount(st, idx, slot) ==
    [st EXCEPT ![idx + 1].count[slot] = @ + 1]

\* CFRState::add: append a node and bind it at parent.children[slot].
Add(st, parent_idx, slot, data) ==
    Append([st EXCEPT ![parent_idx + 1].children[slot] = Len(st)],
           NewNode(data))

\* TraversalState::move_to
MoveTo(ts, node_idx, chosen_child_idx) ==
    [ts EXCEPT !.node_idx = node_idx, !.chosen_child_idx = chosen_child_idx]

\* ---------------------------------------------------------------- results
Ok == "Ok"
CFRNodeNotFound == "CFRNodeNotFound"
UnexpectedChance ==
    "CFRUnexpectedNode: Expected existing child node for chance node"
UnexpectedTerminal == "CFRUnexpectedNode: Expected terminal node"

IsFault(r) == r \in {CFRNodeNotFound, UnexpectedChance, UnexpectedTerminal}

\* ---------------------------------------------------------------- CFRHistorian
\* A call returns [err, idx/ts, st, calls]: the Result, the values the method
\* leaves in cfr_state and traversal_state, and the get-or-create calls it
\* made, in order: the (node, slot) of each, the index it returned and whether
\* it created that node.

\* ensure_target_node with every call creating a node (no look-up).
EnsureAlwaysAdd(st, ts, node_data) ==
    LET from_node_idx == ts.node_idx
        from_child_idx == ts.chosen_child_idx
        st1 == IncrementCount(st, from_node_idx, from_child_idx)
    IN  [err |-> Ok, idx |-> Len(st1),
         st |-> Add(st1, from_node_idx, from_child_idx, node_data)]

\* ensure_target_node with the visit counted only when a node is created.
EnsureCountOnCreate(st, ts, node_data) ==
    LET from_node_idx == ts.node_idx
        from_child_idx == ts.chosen_child_idx
        to == GetChild(st, from_node_idx, from_child_idx)
    IN  IF to # NoChild
        THEN [err |-> Ok, idx |-> to, st |-> st]
        ELSE [err |-> Ok, idx |-> Len(st),
              st |-> Add(IncrementCount(st, from_node_idx, from_child_idx),
                         from_node_idx, from_child_idx, node_data)]

\* ensure_target_node creating and binding a new node when the bound child
\* is of another kind than the data supplied.
EnsureAddWhenKindDiffers(st, ts, node_data) ==
    LET from_node_idx == ts.node_idx
        from_child_idx == ts.chosen_child_idx
        st1 == IncrementCount(st, from_node_idx, from_child_idx)
        to == GetChild(st1, from_node_idx, from_child_idx)
    IN  IF to # NoChild /\ Get(st1, to).data.kind = node_data.kind
        THEN [err |-> Ok, idx |-> to, st |-> st1]
        ELSE [err |-> Ok, idx |-> Len(st1),
              st |-> Add(st1, from_node_idx, from_child_idx, node_data)]

\* ensure_target_node returning the arena's length after the add instead of
\* the index of the node added.
EnsureReturnsLen(st, ts, node_data) ==
    LET from_node_idx == ts.node_idx
        from_child_idx == ts.chosen_child_idx
    IN  IF ~InArena(st, from_node_idx)
        THEN [err |-> CFRNodeNotFound, idx |-> NoChild, st |-> st]
        ELSE LET st1 == IncrementCount(st, from_node_idx, from_child_idx)
                 to == GetChild(st1, from_node_idx, from_child_idx)
             IN  IF to # NoChild
                 THEN [err |-> Ok, idx |-> to, st |-> st1]
                 ELSE [err |-> Ok, idx |-> Len(st1) + 1,
                       st |-> Add(st1, from_node_idx, from_child_idx, node_data)]

\* CFRHistorian::ensure_target_node
EnsureTargetNode(st, ts, node_data) ==
    LET from_node_idx == ts.node_idx
        from_child_idx == ts.chosen_child_idx
    IN  IF ~InArena(st, from_node_idx)
        THEN [err |-> CFRNodeNotFound, idx |-> NoChild, st |-> st]
        ELSE LET st1 == IncrementCount(st, from_node_idx, from_child_idx)
                 to == GetChild(st1, from_node_idx, from_child_idx)
             IN  IF to # NoChild
                 THEN [err |-> Ok, idx |-> to, st |-> st1]
                 ELSE [err |-> Ok, idx |-> Len(st1),
                       st |-> Add(st1, from_node_idx, from_child_idx, node_data)]

Call(st, ts, r) ==
    [node |-> ts.node_idx, slot |-> ts.chosen_child_idx, idx |-> r.idx,
     fresh |-> Len(r.st) > Len(st)]

\* CFRHistorian::record_card
RecordCard(st, ts, game_state, card) ==
    LET card_value == card
        r1 == EnsureTargetNode(st, ts, Chance)
    IN  IF r1.err # Ok
        THEN [err |-> r1.err, st |-> r1.st, ts |-> ts, calls |-> <<>>]
        ELSE LET chance_node_idx == r1.idx
                 ts1 == MoveTo(ts, chance_node_idx, card_value)
                 num_experts == NumPotentialActions
                 r2 == EnsureTargetNode(r1.st, ts1, Player(num_experts))
             IN  IF r2.err # Ok
                 THEN [err |-> r2.err, st |-> r2.st, ts |-> ts1,
                       calls |-> <<Call(st, ts, r1)>>]
                 ELSE [err |-> Ok, st |-> r2.st,
                       ts |-> MoveTo(ts1, chance_node_idx, card_value),
                       calls |-> <<Call(st, ts, r1), Call(r1.st, ts1, r2)>>]

\* record_action without the look at the current node: the get-or-create runs
\* from the cursor whatever the node's kind.
RecordActionNoChanceCheck(st, ts, game_state, action) ==
    LET action_idx == ActionToIdx(action)
        r == EnsureTargetNode(st, ts, Player(NumPotentialActions))
    IN  IF r.err # Ok
        THEN [err |-> r.err, st |-> r.st, ts |-> ts, calls |-> <<>>]
        ELSE [err |-> Ok, st |-> r.st, ts |-> MoveTo(ts, r.idx, action_idx),
              calls |-> <<Call(st, ts, r)>>]

\* CFRHistorian::record_action
RecordAction(st, ts, game_state, action) ==
    LET action_idx == ActionToIdx(action)
    IN  IF ~InArena(st, ts.node_idx)
        THEN [err |-> CFRNodeNotFound, st |-> st, ts |-> ts, calls |-> <<>>]
        ELSE
        LET current_node == Get(st, ts.node_idx)
            is_chance_node == is_chance(current_node.data)
            existing_child_idx == current_node.children[ts.chosen_child_idx]
        IN  IF is_chance_node /\ existing_child_idx = NoChild
            THEN [err |-> UnexpectedChance, st |-> st, ts |-> ts,
                  calls |-> <<>>]
            ELSE
            LET ts1 == IF is_chance_node
                       THEN MoveTo(ts, existing_child_idx, action_idx)
                       ELSE ts
                num_experts == NumPotentialActions
                r == EnsureTargetNode(st, ts1, Player(num_experts))
            IN  IF r.err # Ok
                THEN [err |-> r.err, st |-> r.st, ts |-> ts1, calls |-> <<>>]
                ELSE [err |-> Ok, st |-> r.st,
                      ts |-> MoveTo(ts1, r.idx, action_idx),
                      calls |-> <<Call(st, ts1, r)>>]

\* The award record_terminal reads: the traversing seat's entry of
\* game_state.player_winnings.
Award(game_state, ts) == game_state.player_winnings[ts.player_idx + 1]

\* record_terminal storing the award instead of adding it to the total.
RecordTerminalOverwrite(st, ts, game_state) ==
    LET r == EnsureTargetNode(st, ts, Terminal)
        to_node_idx == r.idx
        ts1 == MoveTo(ts, to_node_idx, 0)
        st1 == IncrementCount(r.st, to_node_idx, 0)
    IN  IF Get(st1, to_node_idx).data.kind = "Terminal"
        THEN [err |-> Ok,
              st |-> [st1 EXCEPT ![to_node_idx + 1].data.total_utility =
                                     Award(game_state, ts1)],
              ts |-> ts1, calls |-> <<Call(st, ts, r)>>]
        ELSE [err |-> UnexpectedTerminal, st |-> st1, ts |-> ts1,
              calls |-> <<Call(st, ts, r)>>]

\* record_terminal adding the award to the node reached whatever its kind.
RecordTerminalAnyKind(st, ts, game_state) ==
    LET r == EnsureTargetNode(st, ts, Terminal)
        to_node_idx == r.idx
        ts1 == MoveTo(ts, to_node_idx, 0)
        st1 == IncrementCount(r.st, to_node_idx, 0)
    IN  [err |-> Ok,
         st |-> [st1 EXCEPT ![to_node_idx + 1].data.total_utility =
                                @ + Award(game_state, ts1)],
         ts |-> ts1, calls |-> <<Call(st, ts, r)>>]

\* CFRHistorian::record_terminal
RecordTerminal(st, ts, game_state) ==
    LET r == EnsureTargetNode(st, ts, Terminal)
    IN  IF r.err # Ok
        THEN [err |-> r.err, st |-> r.st, ts |-> ts, calls |-> <<>>]
        ELSE
        LET to_node_idx == r.idx
            ts1 == MoveTo(ts, to_node_idx, 0)
            award == Award(game_state, ts1)
            st1 == IncrementCount(r.st, to_node_idx, 0)
        IN  IF ~InArena(r.st, to_node_idx)
            THEN [err |-> CFRNodeNotFound, st |-> r.st, ts |-> ts1,
                  calls |-> <<Call(st, ts, r)>>]
            ELSE IF Get(st1, to_node_idx).data.kind = "Terminal"
            THEN [err |-> Ok,
                  st |-> [st1 EXCEPT ![to_node_idx + 1].data.total_utility =
                                         @ + award],
                  ts |-> ts1, calls |-> <<Call(st, ts, r)>>]
            ELSE [err |-> UnexpectedTerminal, st |-> st1, ts |-> ts1,
                  calls |-> <<Call(st, ts, r)>>]

\* handle_round_transition resetting the traversal to the root at each round.
HandleRoundTransitionReset(st, ts, round) ==
    [err |-> Ok, st |-> st, ts |-> MoveTo(ts, 0, 0), calls |-> <<>>]

\* CFRHistorian::handle_round_transition
HandleRoundTransition(st, ts, round) ==
    [err |-> Ok, st |-> st, ts |-> ts, calls |-> <<>>]

\* ---------------------------------------------------------------- events
\* arena::action::Action, the tagged event of Historian::record_action.
Rounds == {"Preflop", "Flop", "Complete"}

CardActions ==
    [tag : {"DealStartingHand"}, idx : Seats, card : Cards]
        \cup [tag : {"DealCommunity"}, card : Cards]
AgentEvents == [tag : {"PlayedAction", "FailedAction"}, action : AgentActions]
RoundEvents == [tag : {"RoundAdvance"}, round : Rounds]
OtherEvents == [tag : {"GameStart", "ForcedBet", "PlayerSit", "Award"}]

\* Historian::record_action recording the starting hand of every seat.
HistorianRecordsEverySeat(st, ts, game_state, action) ==
    CASE action.tag \in {"GameStart", "ForcedBet", "PlayerSit", "Award"} ->
            [err |-> Ok, st |-> st, ts |-> ts, calls |-> <<>>]
      [] action.tag = "RoundAdvance" ->
            IF action.round = "Complete"
            THEN RecordTerminal(st, ts, game_state)
            ELSE HandleRoundTransition(st, ts, action.round)
      [] action.tag \in {"PlayedAction", "FailedAction"} ->
            RecordAction(st, ts, game_state, action.action)
      [] action.tag \in {"DealStartingHand", "DealCommunity"} ->
            RecordCard(st, ts, game_state, action.card)

\* <CFRHistorian as Historian>::record_action
HistorianRecordAction(st, ts, game_state, action) ==
    CASE action.tag \in {"GameStart", "ForcedBet", "PlayerSit"} ->
            [err |-> Ok, st |-> st, ts |-> ts, calls |-> <<>>]
      [] action.tag = "RoundAdvance" ->
            IF action.round = "Complete"
            THEN RecordTerminal(st, ts, game_state)
            ELSE HandleRoundTransition(st, ts, action.round)
      [] action.tag = "Award" ->
            [err |-> Ok, st |-> st, ts |-> ts, calls |-> <<>>]
      [] action.tag = "DealStartingHand" ->
            IF action.idx = ts.player_idx
            THEN RecordCard(st, ts, game_state, action.card)
            ELSE [err |-> Ok, st |-> st, ts |-> ts, calls |-> <<>>]
      [] action.tag \in {"PlayedAction", "FailedAction"} ->
            RecordAction(st, ts, game_state, action.action)
      [] action.tag = "DealCommunity" ->
            RecordCard(st, ts, game_state, action.card)

\* ---------------------------------------------------------------- state
VARIABLES
    cfr_state,        \* the shared arena: CFRHistorian.cfr_state
    traversal_state,  \* per hand: CFRHistorian.traversal_state
    result,           \* per hand: the Result of its last record_action call
    log,              \* per hand: the events delivered and the cursor after each
    calls             \* per hand: the get-or-create calls it has made

vars == <<cfr_state, traversal_state, result, log, calls>>

\* What an event is once abstracted: the card value, the edge-slot of the
\* action, or hand completion with the traversing seat's winnings; a starting
\* hand of another seat is "hidden", a round transition other than the one to
\* Complete is "round", and the remaining events are "ignored".
Abstracted(action, game_state, ts) ==
    CASE action.tag = "DealStartingHand" /\ action.idx # ts.player_idx ->
            [type |-> "hidden", val |-> action.card]
      [] action.tag \in {"DealStartingHand", "DealCommunity"} ->
            [type |-> "card", val |-> action.card]
      [] action.tag \in {"PlayedAction", "FailedAction"} ->
            [type |-> "action", val |-> ActionToIdx(action.action)]
      [] action.tag = "RoundAdvance" /\ action.round = "Complete" ->
            [type |-> "complete", val |-> Award(game_state, ts)]
      [] action.tag = "RoundAdvance" -> [type |-> "round", val |-> 0]
      [] OTHER -> [type |-> "ignored", val |-> 0]

Range(f) == {f[i] : i \in DOMAIN f}

\* TraversalState::new_root: node 0, chosen child 0.
NewRoot(player_idx) ==
    [node_idx |-> 0, chosen_child_idx |-> 0, player_idx |-> player_idx]

\* CFRState::new: the arena holds the root alone.
NewState == <<NewNode(Root)>>

InitFor(hands) ==
    /\ cfr_state = NewState
    /\ traversal_state = [h \in hands |-> NewRoot((h - 1) % 2)]
    /\ result = [h \in hands |-> Ok]
    /\ log = [h \in hands |-> <<>>]
    /\ calls = [h \in hands |-> {}]

Init == InitFor(Hands)

\* The hand's recording is over: it completed, or a fault abandoned it.
Completed(h) ==
    /\ result[h] = Ok
    /\ Len(log[h]) > 0
    /\ log[h][Len(log[h])].type = "complete"

Recording(h) == result[h] = Ok /\ ~Completed(h)

RECURSIVE Sum(_, _)
Sum(f, S) ==
    IF S = {} THEN 0
    ELSE LET x == CHOOSE y \in S : TRUE IN f[x] + Sum(f, S \ {x})

\* The number of events delivered so far.
Steps == Sum([h \in DOMAIN log |-> Len(log[h])], DOMAIN log)

\* One call of Historian::record_action by the historian of hand h.
Deliver(h, action, game_state) ==
    /\ Recording(h)
    /\ LET ts == traversal_state[h]
           r == HistorianRecordAction(cfr_state, ts, game_state, action)
           ev == Abstracted(action, game_state, ts)
       IN  /\ cfr_state' = r.st
           /\ traversal_state' = [traversal_state EXCEPT ![h] = r.ts]
           /\ result' = [result EXCEPT ![h] = r.err]
           /\ log' = [log EXCEPT ![h] =
                        Append(@, [type |-> ev.type, val |-> ev.val,
                                   node_idx |-> r.ts.node_idx,
                                   chosen_child_idx |-> r.ts.chosen_child_idx])]
           /\ calls' = [calls EXCEPT ![h] = @ \cup Range(r.calls)]

NoWinnings == [player_winnings |-> <<0, 0>>]

\* The card values already dealt in hand h: a deck deals no card twice.
DealtCards(h) ==
    {log[h][i].val : i \in {j \in 1..Len(log[h]) : log[h][j].type = "card"}}

\* DealStartingHand for the hand's own seat, or DealCommunity.
CardDealtTo(h) ==
    \E a \in CardActions :
        /\ a.tag = "DealStartingHand" => a.idx = traversal_state[h].player_idx
        /\ a.card \notin DealtCards(h)
        /\ Deliver(h, a, NoWinnings)

\* PlayedAction or FailedAction.
ActionTakenIn(h) == \E a \in AgentEvents : Deliver(h, a, NoWinnings)

\* RoundAdvance(Round::Complete).
HandCompleteOf(h) ==
    \E w \in PlayerWinnings :
        Deliver(h, [tag |-> "RoundAdvance", round |-> "Complete"],
                [player_winnings |-> w])

\* ---------------------------------------------------------------- Spec
\* Any stream of card, action and completion events, hands interleaved.
CardDealt ==
    \E h \in DOMAIN traversal_state : Steps < MaxSteps /\ CardDealtTo(h)

ActionTaken ==
    \E h \in DOMAIN traversal_state : Steps < MaxSteps /\ ActionTakenIn(h)

HandComplete ==
    \E h \in DOMAIN traversal_state : Steps < MaxSteps /\ HandCompleteOf(h)

Next == CardDealt \/ ActionTaken \/ HandComplete

Spec == Init /\ [][Next]_vars

\* ---------------------------------------------------------------- SpecInOrder
\* Streams in play order: the first event of every hand is a dealt card.
Dealt(h) == Len(log[h]) > 0

InOrderCardDealt ==
    \E h \in DOMAIN traversal_state :
        Steps < MaxInOrderSteps /\ CardDealtTo(h)

InOrderActionTaken ==
    \E h \in DOMAIN traversal_state :
        Steps < MaxInOrderSteps /\ Dealt(h) /\ ActionTakenIn(h)

InOrderHandComplete ==
    \E h \in DOMAIN traversal_state :
        Steps < MaxInOrderSteps /\ Dealt(h) /\ HandCompleteOf(h)

NextInOrder == InOrderCardDealt \/ InOrderActionTaken \/ InOrderHandComplete

SpecInOrder == Init /\ [][NextInOrder]_vars

\* ---------------------------------------------------------------- SpecScenario
\* Three hands on one tree: card A = 0, card B = 2, bet = slot 0, check =
\* slot 1; hands 1 and 3 are recorded for seat 0, hand 2 for seat 1.
ScenarioHands == {1, 2, 3}

ScenarioHand(seat, card, action, winnings) ==
    << [action |-> [tag |-> "DealStartingHand", idx |-> seat, card |-> card],
        game_state |-> NoWinnings],
       [action |-> [tag |-> "PlayedAction", action |-> action],
        game_state |-> NoWinnings],
       [action |-> [tag |-> "RoundAdvance", round |-> "Complete"],
        game_state |-> [player_winnings |-> winnings]] >>

Script ==
    << ScenarioHand(0, 0, "Bet", <<10, -10>>),
       ScenarioHand(1, 0, "Bet", <<4, -4>>),
       ScenarioHand(0, 2, "Check", <<2, -2>>) >>

ScenarioInit == InitFor(ScenarioHands)

ScenarioStep ==
    \E h \in DOMAIN traversal_state :
        LET k == Len(log[h]) + 1
        IN  /\ k <= Len(Script[h])
            /\ Deliver(h, Script[h][k].action, Script[h][k].game_state)

SpecScenario == ScenarioInit /\ [][ScenarioStep]_vars

\* ---------------------------------------------------------------- SpecEvents
\* Any stream over the whole event alphabet of Historian::record_action.
HiddenCardDealt ==
    \E h \in DOMAIN traversal_state :
        /\ Steps < MaxEventSteps
        /\ \E a \in CardActions :
              /\ a.tag = "DealStartingHand"
              /\ a.idx # traversal_state[h].player_idx
              /\ Deliver(h, a, NoWinnings)

RoundTransition ==
    \E h \in DOMAIN traversal_state :
        /\ Steps < MaxEventSteps
        /\ \E a \in RoundEvents :
              a.round # "Complete" /\ Deliver(h, a, NoWinnings)

\* GameStart, ForcedBet, PlayerSit or Award; an award notice arrives with the
\* winnings already in the game state.
Notice ==
    \E h \in DOMAIN traversal_state :
        /\ Steps < MaxEventSteps
        /\ \E a \in OtherEvents, w \in PlayerWinnings :
              Deliver(h, a, [player_winnings |-> w])

EventCardDealt ==
    \E h \in DOMAIN traversal_state : Steps < MaxEventSteps /\ CardDealtTo(h)

EventActionTaken ==
    \E h \in DOMAIN traversal_state : Steps < MaxEventSteps /\ ActionTakenIn(h)

EventHandComplete ==
    \E h \in DOMAIN traversal_state :
        Steps < MaxEventSteps /\ HandCompleteOf(h)

NextEvents ==
    \/ EventCardDealt \/ EventActionTaken \/ EventHandComplete
    \/ HiddenCardDealt \/ RoundTransition \/ Notice

\* One historian per seat of a heads-up table, both on one tree.
EventHands == {1, 2}

EventsInit == InitFor(EventHands)

SpecEvents == EventsInit /\ [][NextEvents]_vars

\* ---------------------------------------------------------------- helpers
NodeIdxs == 0..(Len(cfr_state) - 1)
Kind(idx) == Get(cfr_state, idx).data.kind
Utility(idx) == Get(cfr_state, idx).data.total_utility
Count(idx, slot) == Get(cfr_state, idx).count[slot]
Child(idx, slot) == GetChild(cfr_state, idx, slot)
NodesOfKind(kind) == {n \in NodeIdxs : Kind(n) = kind}
HandsOn == DOMAIN traversal_state

\* The node data a caller may hand to ensure_target_node.
NodeDatas == {Chance, Player(NumPotentialActions), Terminal}

\* ---------------------------------------------------------------- C1
\* C1: ensure_target_node is an idempotent get-or-create. In every reachable
\* state, from the cursor of every hand and for any two node data: the first
\* call returns the bound child, or binds exactly one new node there when the
\* slot is unbound; a second call returns the same index, creates no node,
\* leaves every node's data and every binding as the first call left them,
\* and each call adds exactly 1 to the parent's visit counter of the slot.
C1_GetOrCreateIdempotent ==
    \A h \in HandsOn, d1 \in NodeDatas, d2 \in NodeDatas :
      \A ts \in {traversal_state[h]} :
        \A r1 \in {EnsureTargetNode(cfr_state, ts, d1)} :
          \A r2 \in {EnsureTargetNode(r1.st, ts, d2)} :
            LET n == ts.node_idx
                s == ts.chosen_child_idx
            IN  /\ r1.err = Ok /\ r2.err = Ok
                /\ IF Child(n, s) = NoChild
                   THEN /\ Len(r1.st) = Len(cfr_state) + 1
                        /\ r1.idx = Len(cfr_state)
                        /\ Get(r1.st, r1.idx) = NewNode(d1)
                   ELSE /\ Len(r1.st) = Len(cfr_state)
                        /\ r1.idx = Child(n, s)
                /\ \A m \in NodeIdxs, t \in Slots :
                     <<m, t>> # <<n, s>> => GetChild(r1.st, m, t) = Child(m, t)
                /\ GetChild(r1.st, n, s) = r1.idx
                /\ r2.idx = r1.idx
                /\ Len(r2.st) = Len(r1.st)
                /\ \A i \in 1..Len(r1.st) :
                     /\ r2.st[i].data = r1.st[i].data
                     /\ r2.st[i].children = r1.st[i].children
                /\ Get(r1.st, n).count[s] = Count(n, s) + 1
                /\ Get(r2.st, n).count[s] = Count(n, s) + 2

\* C1 witness: a bound slot on which the get-or-create has run more than once.
C1_Witness ==
    \E n \in NodeIdxs, s \in Slots : Child(n, s) # NoChild /\ Count(n, s) >= 2

\* ---------------------------------------------------------------- C2
CardA == 0
CardB == 2
BetSlot == ActionToIdx("Bet")
CheckSlot == ActionToIdx("Check")

BoundSlots(n) == {s \in Slots : Child(n, s) # NoChild}

\* Every hand has been recorded up to and including its completion.
AllCompleted == \A h \in HandsOn : Completed(h)

\* The node a completed hand ended on.
EndOf(h) == traversal_state[h].node_idx

\* C2 as claimed: after the three hands of the scenario the root has one
\* chance-node child for card A and one for card B, the bet-edge terminal has
\* utility 6 and visit count 2, the check-edge terminal utility 2 and visit
\* count 1, and there are 6 non-root nodes: 2 chance, 2 decision, 2 terminal.
C2_AsClaimed ==
    AllCompleted =>
        /\ Cardinality({Child(0, s) : s \in BoundSlots(0)}
                         \cap NodesOfKind("Chance")) = 2
        /\ Kind(EndOf(1)) = "Terminal" /\ Kind(EndOf(3)) = "Terminal"
        /\ EndOf(2) = EndOf(1)
        /\ Utility(EndOf(1)) = 6 /\ Count(EndOf(1), 0) = 2
        /\ Utility(EndOf(3)) = 2 /\ Count(EndOf(3), 0) = 1
        /\ Len(cfr_state) - 1 = 6
        /\ Cardinality(NodesOfKind("Chance")) = 2
        /\ Cardinality(NodesOfKind("Player")) = 2
        /\ Cardinality(NodesOfKind("Terminal")) = 2

\* C2 amended: after the three hands the root has a single child, a chance
\* node at slot 0, whose slots A and B hold one decision node each; the
\* decision node of card A has at the bet slot a decision node whose bet slot
\* holds the terminal of hands 1 and 2 (utility 6, visit count 2); the
\* decision node of card B has at the check slot a decision node whose check
\* slot holds the terminal of hand 3 (utility 2, visit count 1); there are 7
\* non-root nodes: 1 chance, 4 decision, 2 terminal.
C2_Scenario ==
    AllCompleted =>
        LET c == Child(0, 0)
            pa == Child(c, CardA)
            pb == Child(c, CardB)
            qa == Child(pa, BetSlot)
            qb == Child(pb, CheckSlot)
        IN  /\ BoundSlots(0) = {0} /\ Kind(c) = "Chance"
            /\ BoundSlots(c) = {CardA, CardB}
            /\ Kind(pa) = "Player" /\ Kind(pb) = "Player"
            /\ BoundSlots(pa) = {BetSlot} /\ Kind(qa) = "Player"
            /\ BoundSlots(pb) = {CheckSlot} /\ Kind(qb) = "Player"
            /\ BoundSlots(qa) = {BetSlot} /\ Child(qa, BetSlot) = EndOf(1)
            /\ BoundSlots(qb) = {CheckSlot} /\ Child(qb, CheckSlot) = EndOf(3)
            /\ EndOf(2) = EndOf(1)
            /\ Kind(EndOf(1)) = "Terminal" /\ Kind(EndOf(3)) = "Terminal"
            /\ Utility(EndOf(1)) = 6 /\ Count(EndOf(1), 0) = 2
            /\ Utility(EndOf(3)) = 2 /\ Count(EndOf(3), 0) = 1
            /\ Len(cfr_state) - 1 = 7
            /\ Cardinality(NodesOfKind("Chance")) = 1
            /\ Cardinality(NodesOfKind("Player")) = 4
            /\ Cardinality(NodesOfKind("Terminal")) = 2

\* C2 witness: the three scripted hands have all completed without a fault.
C2_Witness ==
    /\ HandsOn = ScenarioHands
    /\ \A h \in HandsOn : Completed(h) /\ Len(log[h]) = Len(Script[h])

\* ---------------------------------------------------------------- C3
\* The edges (node, slot) the path of hand h has taken so far.
Taken(h) == {<<c.node, c.slot>> : c \in calls[h]}

HandsTaking(n, s) == {h \in HandsOn : <<n, s>> \in Taken(h)}

\* C3: counter monotonicity. The visit counter of every edge-slot of every
\* non-terminal node equals the number of hands whose path takes that edge,
\* whatever the interleaving: no hand counts the same edge twice.
C3_CounterEqualsHands ==
    \A n \in NodeIdxs, s \in Slots :
        Kind(n) # "Terminal" => Count(n, s) = Cardinality(HandsTaking(n, s))

\* ---------------------------------------------------------------- C4
\* The hands whose hand-complete event reached terminal node n, and the
\* traversing seat's winnings each of them delivered.
ReachedBy(n) == {h \in HandsOn : Completed(h) /\ EndOf(h) = n}
AwardOf(h) == log[h][Len(log[h])].val

\* C4: terminal accumulation. Every terminal node's accumulated utility is
\* the sum of the awards of the hands that completed on it, and its visit
\* counter at slot 0 is the number of those hands.
C4_TerminalAccumulation ==
    \A n \in NodesOfKind("Terminal") :
        /\ Utility(n) = Sum([h \in HandsOn |-> AwardOf(h)], ReachedBy(n))
        /\ Count(n, 0) = Cardinality(ReachedBy(n))

\* ---------------------------------------------------------------- C5
\* The abstracted event of a log entry: card value or action slot; a
\* completion carries no abstracted value.
Event(e) == [type |-> e.type, val |-> IF e.type = "complete" THEN 0 ELSE e.val]

\* The first k events of hand h were all recorded (returned Ok).
Recorded(h, k) == k <= Len(log[h]) /\ (k < Len(log[h]) \/ result[h] = Ok)

\* Hands g and h delivered the same abstracted events up to the k-th.
SameEvents(lg, lh, k) ==
    /\ k <= Len(lg) /\ k <= Len(lh)
    /\ \A i \in 1..k : Event(lg[i]) = Event(lh[i])

SameCursors ==
    \A g \in HandsOn, h \in HandsOn : \A k \in 1..Len(log[g]) :
        (Recorded(g, k) /\ Recorded(h, k) /\ SameEvents(log[g], log[h], k))
            => /\ log[g][k].node_idx = log[h][k].node_idx
               /\ log[g][k].chosen_child_idx = log[h][k].chosen_child_idx

\* The step records an event of hand h that hand g has recorded before at
\* the same place of the same abstracted sequence.
Repeats(h, g) ==
    /\ g # h
    /\ Len(log'[h]) = Len(log[h]) + 1
    /\ result'[h] = Ok
    /\ Recorded(g, Len(log'[h]))
    /\ SameEvents(log[g], log'[h], Len(log'[h]))

\* C5: topology determinism. Two hands that have recorded the same sequence
\* of abstracted events hold, after each corresponding event, the same node
\* index and chosen slot; and the hand that records such an event second
\* creates no node.
C5_TopologyDeterminism ==
    /\ []SameCursors
    /\ [][\A h \in HandsOn, g \in HandsOn :
            Repeats(h, g) => Len(cfr_state') = Len(cfr_state)]_vars

\* C5 witness: two hands have recorded the same two or more events.
C5_Witness ==
    \E g \in HandsOn, h \in HandsOn :
        /\ g # h
        /\ Len(log[g]) >= 2
        /\ Recorded(g, Len(log[g])) /\ Recorded(h, Len(log[g]))
        /\ SameEvents(log[g], log[h], Len(log[g]))

\* ---------------------------------------------------------------- C6
\* The nodes hand h has created, each with the (parent, slot) it was made for.
Created(h) == {c \in calls[h] : c.fresh}

ParentEdges(idx) ==
    {e \in NodeIdxs \X Slots : Child(e[1], e[2]) = idx}

TreeShape ==
    /\ Len(cfr_state) >= 1
    /\ ParentEdges(0) = {}
    /\ \A idx \in NodeIdxs \ {0} :
        /\ Cardinality(ParentEdges(idx)) = 1
        /\ \A e \in ParentEdges(idx) : e[1] < idx
    /\ \A n \in NodeIdxs, s \in Slots : Child(n, s) \in NodeIdxs \cup {NoChild}

BindingsKept ==
    /\ Len(cfr_state') >= Len(cfr_state)
    /\ \A n \in NodeIdxs, s \in Slots :
        Child(n, s) # NoChild => GetChild(cfr_state', n, s) = Child(n, s)

\* C7: tree shape and binding permanence. The arena is always a tree with
\* the single root 0 in which every other node is bound under exactly one
\* (parent, slot); a bound slot keeps its child index in every step; and
\* the number of nodes never decreases.
C7_TreeAndPermanence == []TreeShape /\ [][BindingsKept]_vars

\* C7 witness: a tree of several levels in which a bound slot has been
\* traversed again after it was bound.
C7_Witness ==
    /\ Len(cfr_state) >= 4
    /\ \E g \in HandsOn, h \in HandsOn :
        \E c \in Created(g) : g # h /\ <<c.node, c.slot>> \in Taken(h)
    /\ \E n \in NodeIdxs \ {0} : BoundSlots(n) # {}

\* ---------------------------------------------------------------- C8
\* The step delivers an event of the given type to hand h.
Delivers(h, type) ==
    /\ Len(log'[h]) = Len(log[h]) + 1
    /\ log'[h][Len(log'[h])].type = type

\* The cursor of hand h is on a Chance node with no child at its chosen slot.
OnUnboundChance(h) ==
    /\ Kind(traversal_state[h].node_idx) = "Chance"
    /\ Child(traversal_state[h].node_idx,
             traversal_state[h].chosen_child_idx) = NoChild

\* C8: structural fault. An action-taken event processed while the cursor is
\* on a Chance node with no child at the chosen slot returns the
\* unexpected-node-structure fault and leaves the tree and every cursor as
\* they were.
C8_StructuralFault ==
    [][\A h \in HandsOn :
         (OnUnboundChance(h) /\ Delivers(h, "action"))
            => /\ result'[h] = UnexpectedChance
               /\ cfr_state' = cfr_state
               /\ traversal_state' = traversal_state]_vars

\* C8 witness: an action event has been answered with that fault.
C8_Witness ==
    \E h \in HandsOn :
        /\ result[h] = UnexpectedChance
        /\ OnUnboundChance(h)
        /\ log[h][Len(log[h])].type = "action"

\* ---------------------------------------------------------------- C9
\* C9: no corruption on fault. A step in which an event returns a fault
\* leaves the arena as it was: no node created or bound, no visit counter
\* and no accumulated utility changed.
C9_FaultLeavesArena ==
    [][\A h \in HandsOn :
         (result[h] = Ok /\ IsFault(result'[h])) => cfr_state' = cfr_state]_vars

\* ---------------------------------------------------------------- C10
\* C10: terminal nodes are leaves. No Terminal node has a child at any slot,
\* and only its slot 0 has a non-zero visit counter.
C10_TerminalsAreLeaves ==
    \A n \in NodesOfKind("Terminal") :
        /\ BoundSlots(n) = {}
        /\ \A s \in Slots \ {0} : Count(n, s) = 0

\* ---------------------------------------------------------------- C11
\* The call of Historian::record_action with this event by hand h, in the
\* current state, returns success and changes neither the arena nor the cursor.
IsNoOp(h, action, game_state) ==
    LET r == HistorianRecordAction(cfr_state, traversal_state[h],
                                   game_state, action)
    IN  r.err = Ok /\ r.st = cfr_state /\ r.ts = traversal_state[h]

\* The step leaves the arena and every cursor as they were and hand h's call
\* has returned success.
StepIsNoOp(h) ==
    /\ result'[h] = Ok
    /\ cfr_state' = cfr_state
    /\ traversal_state' = traversal_state

HiddenIsNoOp ==
    \A h \in HandsOn :
        \A a \in {b \in CardActions : b.tag = "DealStartingHand"
                                        /\ b.idx # traversal_state[h].player_idx} :
            IsNoOp(h, a, NoWinnings)

\* C11: privacy. In every reachable state and for every hand, a starting-hand
\* card-dealt event of a seat other than the traversal's own returns success
\* and leaves the whole tree (nodes, bindings, visit counters, utilities) and
\* the cursor (node index and chosen slot) unchanged; and every step that
\* delivers such an event does so.
C11_Privacy ==
    /\ []HiddenIsNoOp
    /\ [][\A h \in HandsOn : Delivers(h, "hidden") => StepIsNoOp(h)]_vars

\* C11 witness: a hand that has left the root and grown the tree has been
\* delivered the starting hand of another seat.
C11_Witness ==
    \E h \in HandsOn :
        /\ Len(log[h]) >= 2
        /\ log[h][Len(log[h])].type = "hidden"
        /\ traversal_state[h].node_idx # 0
        /\ Len(cfr_state) >= 3

\* ---------------------------------------------------------------- C12
IgnoredAreNoOps ==
    \A h \in HandsOn :
        /\ \A a \in OtherEvents, w \in PlayerWinnings :
             IsNoOp(h, a, [player_winnings |-> w])
        /\ \A a \in RoundEvents :
             a.round # "Complete" => IsNoOp(h, a, NoWinnings)

\* The step adds a Terminal node or changes a node's accumulated utility.
RecordsCompletion ==
    \/ \E n \in NodeIdxs :
         Get(cfr_state', n).data.total_utility # Utility(n)
    \/ \E n \in (0..(Len(cfr_state') - 1)) \ NodeIdxs :
         Get(cfr_state', n).data.kind = "Terminal"

\* C12: ignored events are no-ops. In every reachable state and for every
\* hand, every round transition other than the one to Complete and every
\* hand-start, forced-bet, seating and award event returns success and leaves
\* the tree and the cursor unchanged, and every step delivering one does so;
\* only the round transition to Complete records a hand completion.
C12_IgnoredEvents ==
    /\ []IgnoredAreNoOps
    /\ [][/\ \A h \in HandsOn :
               (Delivers(h, "round") \/ Delivers(h, "ignored")) => StepIsNoOp(h)
          /\ RecordsCompletion => \E h \in HandsOn : Delivers(h, "complete")]_vars

\* C12 witness: a hand away from the root has been delivered a round
\* transition and an ignored event, and another hand has completed.
C12_Witness ==
    /\ \E h \in HandsOn :
        /\ traversal_state[h].node_idx # 0
        /\ \E i \in 1..Len(log[h]), j \in 1..Len(log[h]) :
             log[h][i].type = "round" /\ log[h][j].type = "ignored"
    /\ \E n \in NodeIdxs : Kind(n) = "Terminal"

\* ---------------------------------------------------------------- C13
\* No card-dealt event of hand h has been processed: its cursor is still at
\* its start position on the root.
NoCardYet(h) ==
    /\ DealtCards(h) = {}
    /\ traversal_state[h] = NewRoot(traversal_state[h].player_idx)

\* C13: event-order enforcement. An action-taken event delivered to a hand
\* for which no card-dealt event has been processed is rejected with the
\* unexpected-node-structure fault and does not grow the tree.
C13_OrderEnforced ==
    [][\A h \in HandsOn :
         (NoCardYet(h) /\ Delivers(h, "action"))
            => /\ result'[h] = UnexpectedChance
               /\ Len(cfr_state') = Len(cfr_state)]_vars

\* ---------------------------------------------------------------- C14
\* The last event of hand h was of the given type and was recorded.
LastRecorded(h, type) ==
    /\ result[h] = Ok
    /\ Len(log[h]) > 0
    /\ log[h][Len(log[h])].type = type

LastVal(h) == log[h][Len(log[h])].val

\* C14: card-dealt postcondition. After every recorded card-dealt event the
\* cursor's node is a Chance node, the chosen slot is the card's value, that
\* Chance node has a Player child bound at the slot, and the cursor is not on
\* the Player node.
C14_CardPostcondition ==
    \A h \in HandsOn :
        LastRecorded(h, "card") =>
            LET n == traversal_state[h].node_idx
                s == traversal_state[h].chosen_child_idx
            IN  /\ Kind(n) = "Chance"
                /\ s = LastVal(h)
                /\ Child(n, s) # NoChild
                /\ Kind(Child(n, s)) = "Player"

\* ---------------------------------------------------------------- C15
\* C15: action-taken postcondition. After every recorded action-taken event
\* the cursor's node is a Player node and the chosen slot is the edge-slot of
\* the action.
C15_ActionPostcondition ==
    \A h \in HandsOn :
        LastRecorded(h, "action") =>
            /\ Kind(traversal_state[h].node_idx) = "Player"
            /\ traversal_state[h].chosen_child_idx = LastVal(h)

\* ---------------------------------------------------------------- C16
\* The child bound at the cursor slot of hand h, NoChild when unbound.
CursorChild(h) ==
    Child(traversal_state[h].node_idx, traversal_state[h].chosen_child_idx)

UtilitiesKept ==
    /\ Len(cfr_state') = Len(cfr_state)
    /\ \A n \in NodeIdxs : Get(cfr_state', n).data.total_utility = Utility(n)

\* C16: wrong-kind fault at hand completion. A hand-complete event whose
\* cursor slot is bound to a non-Terminal node returns the
\* unexpected-node-structure fault, creates no node and changes no node's
\* accumulated utility; when the slot is unbound or bound to a Terminal node
\* the event succeeds.
C16_WrongKindFault ==
    [][\A h \in HandsOn :
         Delivers(h, "complete") =>
            IF CursorChild(h) # NoChild /\ Kind(CursorChild(h)) # "Terminal"
            THEN result'[h] = UnexpectedTerminal /\ UtilitiesKept
            ELSE result'[h] = Ok]_vars

\* C16 witness: one hand-complete event has met a non-Terminal node and
\* returned the fault, and another has succeeded.
C16_Witness ==
    /\ \E h \in HandsOn :
        /\ result[h] = UnexpectedTerminal
        /\ Kind(traversal_state[h].node_idx) \in {"Player", "Chance"}
    /\ \E g \in HandsOn : Completed(g)

\* ---------------------------------------------------------------- C17
\* The legal-edge count a Player node's regret matcher was sized with.
NumExperts(n) == Get(cfr_state, n).data.num_experts

\* C17: decision-node sizing. Every edge-slot of a Player node that has a
\* bound child or a non-zero visit counter is smaller than the legal-edge
\* count the node's regret-tracking component was sized with.
C17_SlotsWithinSizing ==
    \A n \in NodesOfKind("Player"), s \in Slots :
        (Child(n, s) # NoChild \/ Count(n, s) # 0) => s < NumExperts(n)

\* ---------------------------------------------------------------- C18
\* C18: cursor validity. Every cursor's node index names a node of the
\* arena, and no event has returned the node-not-found fault.
C18_CursorValid ==
    \A h \in HandsOn :
        /\ InArena(cfr_state, traversal_state[h].node_idx)
        /\ result[h] # CFRNodeNotFound

\* C18 witness: the arena has grown, one cursor is on the node added last,
\* and one hand has been abandoned on a fault.
C18_Witness ==
    /\ Len(cfr_state) >= 3
    /\ \E h \in HandsOn : traversal_state[h].node_idx = Len(cfr_state) - 1
    /\ \E g \in HandsOn : IsFault(result[g])

\* ---------------------------------------------------------------- C19
\* C19: a cursor on a Chance node always has its child. Whenever a cursor's
\* current node is a Chance node a child is bound at the chosen slot, and no
\* event returns the "Expected existing child node for chance node" fault.
C19_ChanceCursorHasChild ==
    \A h \in HandsOn :
        /\ Kind(traversal_state[h].node_idx) = "Chance"
              => CursorChild(h) # NoChild
        /\ result[h] # UnexpectedChance

\* ---------------------------------------------------------------- C20
\* The abstracted event sequence hand h has delivered.
Sequence(h) == [i \in 1..Len(log[h]) |-> Event(log[h][i])]

\* The cursor of hand h: the node it is on and the slot chosen there.
Cursor(h) ==
    <<traversal_state[h].node_idx, traversal_state[h].chosen_child_idx>>

\* C20: path injectivity. Two hands that have recorded different abstracted
\* event sequences from the root (another card value, another action
\* edge-slot, or a card where the other has an action) do not have their
\* cursors arrive at the same place, the same slot of the same node; a card
\* value and an action edge-slot that are numerically equal do not select the
\* same child of a node.
C20_PathInjectivity ==
    \A g \in HandsOn, h \in HandsOn :
        (result[g] = Ok /\ result[h] = Ok /\ Sequence(g) # Sequence(h))
            => Cursor(g) # Cursor(h)

====
